---- MODULE Spec2Model ----
(***************************************************************************)
(* State-machine model of the CNY fireworks experience:                    *)
(*   GestureDetector  (src/js/gestureDetector.js)                          *)
(*   FireworksSystem  (src/unnamed/part_001, class FireworksSystem)        *)
(*   FortuneScroll    (src/js/fortuneScroll.js, three-scroll variant)      *)
(*   ScrollManager    (src/js/scrollManager.js)                            *)
(*   CNYFireworksApp  (src/js/main.js, second variant, lines 296-651)      *)
(*                                                                         *)
(* Time is counted in milliseconds and passes in steps of Quantum.         *)
(* Date.now() timestamps are kept as the time elapsed since they were      *)
(* taken (the code only ever reads them as a difference with Date.now()),  *)
(* saturated just above the threshold they are compared with.  Durations   *)
(* given in seconds in CONFIG are given here in milliseconds, and a        *)
(* progress ratio p in [0,1] over a duration D is kept as the integer p*D. *)
(* A setTimeout callback runs no earlier than its delay and may run any    *)
(* time later.                                                             *)
(*                                                                         *)
(* Every handler is a function from world to world (a record of the        *)
(* objects); an action applies one handler.  Specifications:               *)
(*   Spec           the application driven by fist and open-palm frames,   *)
(*                  the keyboard, animation frames and its timers          *)
(*   SpecGesture    the GestureDetector under every kind of camera frame   *)
(*   SpecScroll     the ScrollManager driven through its own interface     *)
(*   SpecFireworks  the FireworksSystem driven through its own interface   *)
(*   SpecFOFO       four frames classified FIST, OPEN, FIST, OPEN          *)
(*   SpecC4         select, confirm, then update ticks and the show timer  *)
(*   SpecRun        fireworks runs: launch when idle, update until over    *)
(*   SpecShow       a trigger, then the animation loop and reveal timers   *)
(*   SpecFingers    SpecGesture with a record of the selection events      *)
(*   SpecFlicker    frames with valid finger counts in quick succession    *)
(*   SpecClick      SpecScroll with clicks and taps on the canvas          *)
(*   SpecFortunes   initialize() on an empty manager, with the fortunes    *)
(*   SpecFade       the round of SpecC4 under short update ticks           *)
(*   SpecAuto       camera frames while three IDLE scrolls are shown       *)
(*   SpecStale      SpecScroll with a record of the timers of past rounds  *)
(***************************************************************************)
EXTENDS Integers, Sequences, FiniteSets, TLC

VARIABLES
    gd,          \* the GestureDetector object
    fw,          \* the FireworksSystem object
    sm,          \* the ScrollManager object (scrolls holds heap references)
    objs,        \* heap of FortuneScroll objects
    showTimers,  \* pending setTimeout(() => scroll.show(), 800) callbacks, FIFO
    app,         \* CNYFireworksApp fields and pending scroll-reveal timers
    ev,          \* what the last handler pushed to its observers
    mon          \* position in a scripted scenario, and what it has seen

vars == <<gd, fw, sm, objs, showTimers, app, ev, mon>>

-----------------------------------------------------------------------------
(* Program constants *)

FIST_THRESHOLD == 4
COOLDOWN_MS == 1000
fingerCountDebounceMs == 500
THUMB_MARGIN == 5
FINGER_MARGIN == 2
LAST_LANDMARK == 20       \* highest landmark index the detector reads

RISE_TIME == 1500
EXPLODE_TIME == 300
FADE_TIME == 1000

UNROLL_DURATION == 2000
TEXT_FADE_DURATION == 1000
DISPLAY_DURATION == 4000
FADE_OUT_DURATION == 1500
SELECTION_PULSE_COUNT == 3
SELECTION_PULSE_DURATION == 200
NON_SELECTED_FADE_DURATION == 1000
SHOW_DELAY_MS == 800
DELAY_AFTER_FIREWORKS == 0
SCROLL_COUNT == 3

(* Bounds of the model *)

FlickerLen == 6           \* most frames of a flicker sequence

PoolSize == 3             \* CONFIG.PERFORMANCE.PARTICLE_POOL_SIZE, scaled down
EXPLOSION_PARTICLES == 2  \* CONFIG.FIREWORKS.EXPLOSION_PARTICLES, scaled down
MaxTargets == PoolSize + 1
TargetPoints == 2         \* points sampled from the text by the application
MaxScrolls == 6           \* most scrolls the manager is let to hold
MaxShowTimers == 1        \* most pending show() timers
MaxReveal == 2            \* most pending scroll-reveal timers
MaxObjs == MaxScrolls + MaxShowTimers + SCROLL_COUNT   \* heap slots
Quantum == COOLDOWN_MS \div 2   \* granularity of time
DeltaTimes == {Quantum, 2 * Quantum}   \* times between two animation frames

NULL == 0 - 1             \* JavaScript null / undefined for an index

-----------------------------------------------------------------------------
(* Helpers *)

Min(a, b) == IF a < b THEN a ELSE b

\* A time value that is only ever compared with limit: every value above
\* limit is kept as limit + 1.
Sat(x, limit) == IF x > limit THEN limit + 1 ELSE x

\* F(x), with x evaluated once and for all
Once(x, F(_)) == CHOOSE r \in {F(v) : v \in {x}} : TRUE

-----------------------------------------------------------------------------
(* FireworksSystem *)

\* A position is the number of the target point the particle is at (from
\* 1), or 0 when it is anywhere else; target is the number of the target
\* point, and a color is a number too, 0 for that of new THREE.Color().
InactiveParticle ==
    [isActive |-> FALSE, phase |-> "inactive", life |-> 0, maxLife |-> 0,
     position |-> 0, target |-> 0, color |-> 0]

\* targetPoints[i - 1].color: neighbouring points differ in color
targetColor(i) == 1 + (i % 2)

\* constructor: pool of PoolSize inactive particles, nothing active
FW_new ==
    [isAnimating     |-> FALSE,
     particlePool    |-> [i \in 1..PoolSize |-> InactiveParticle],
     activeParticles |-> <<>>,
     particleMesh    |-> FALSE]

\* mutation of getParticleFromPool: the first slot, in use or not
getParticleFromPool_anySlot(f) == 1

\* mutation of getParticleFromPool: a particle counts as free unless it is
\* rising or exploding
getParticleFromPool_byPhase(f) ==
    IF \E i \in 1..PoolSize :
           f.particlePool[i].phase \notin {"launch", "explode"}
    THEN CHOOSE i \in 1..PoolSize :
            /\ f.particlePool[i].phase \notin {"launch", "explode"}
            /\ \A j \in 1..(i - 1) :
                  f.particlePool[j].phase \in {"launch", "explode"}
    ELSE 0

\* particlePool.find(p => !p.isActive): first inactive slot, 0 for undefined
getParticleFromPool(f) ==
    IF \E i \in 1..PoolSize : ~f.particlePool[i].isActive
    THEN CHOOSE i \in 1..PoolSize :
            /\ ~f.particlePool[i].isActive
            /\ \A j \in 1..(i - 1) : f.particlePool[j].isActive
    ELSE 0

\* the for loop of launch: one particle per target point, break when the
\* pool has no inactive particle left
RECURSIVE launchLoop(_, _, _)
launchLoop(f, i, n) ==
    IF i >= n THEN f
    ELSE LET p == getParticleFromPool(f) IN
         IF p = 0 THEN f
         ELSE Once([f EXCEPT !.particlePool[p] =
                              [isActive |-> TRUE, phase |-> "launch",
                               life |-> 0, maxLife |-> RISE_TIME,
                               position |-> 0, target |-> i + 1,
                               color |-> targetColor(i + 1)],
                          !.activeParticles = Append(@, p)],
                   LAMBDA f1 : launchLoop(f1, i + 1, n))

\* mutation of launch: the run in progress is not checked
launch_ignoringBusy(f, n) ==
    launchLoop([f EXCEPT !.isAnimating = TRUE,
                         !.activeParticles = <<>>,
                         !.particleMesh = TRUE], 0, n)

\* launch(targetPoints), n = targetPoints.length
launch(f, n) ==
    IF f.isAnimating THEN f
    ELSE launchLoop([f EXCEPT !.isAnimating = TRUE,
                              !.activeParticles = <<>>,
                              !.particleMesh = TRUE], 0, n)

\* the for loop of createExplosion(centerParticle), c being the slot of
\* centerParticle: up to EXPLOSION_PARTICLES secondaries, each starting in
\* phase fade at the position and with the color of centerParticle
RECURSIVE createExplosion(_, _, _)
createExplosion(f, c, i) ==
    IF i >= EXPLOSION_PARTICLES THEN f
    ELSE LET p == getParticleFromPool(f) IN
         IF p = 0 THEN f
         ELSE Once([f EXCEPT !.particlePool[p] =
                              [@ EXCEPT !.isActive = TRUE, !.phase = "fade",
                                        !.life = 0, !.maxLife = FADE_TIME,
                                        !.position =
                                            f.particlePool[c].position,
                                        !.color = f.particlePool[c].color],
                          !.activeParticles = Append(@, p)],
                   LAMBDA f1 : createExplosion(f1, c, i + 1))

\* updateLaunchPhase; lifeRatio >= 1 is q.life >= q.maxLife
\* mutation of updateLaunchPhase: the particle explodes where it is
updateLaunchPhase_noSnap(f, p) ==
    LET q == f.particlePool[p] IN
    IF q.life >= q.maxLife
    THEN createExplosion(
            [f EXCEPT !.particlePool[p] =
                 [q EXCEPT !.phase = "explode", !.life = 0,
                           !.maxLife = EXPLODE_TIME]], p, 0)
    ELSE [f EXCEPT !.particlePool[p].position = 0]

updateLaunchPhase(f, p) ==
    LET q == f.particlePool[p] IN
    IF q.life >= q.maxLife
    THEN createExplosion(
            [f EXCEPT !.particlePool[p] =
                 [q EXCEPT !.phase = "explode", !.life = 0,
                           !.maxLife = EXPLODE_TIME,
                           !.position = q.target]], p, 0)
    ELSE [f EXCEPT !.particlePool[p].position = 0]

updateExplodePhase(f, p) ==
    LET q == f.particlePool[p] IN
    IF q.life >= q.maxLife
    THEN [f EXCEPT !.particlePool[p] =
             [q EXCEPT !.phase = "fade", !.life = 0, !.maxLife = FADE_TIME]]
    ELSE f

\* mutation of updateFadePhase: the particle is never deactivated
updateFadePhase_noDeactivate(f, p) == f

\* a fading particle falls: it is no longer at a target point
updateFadePhase(f, p) ==
    LET q == f.particlePool[p] IN
    IF q.life >= q.maxLife
    THEN [f EXCEPT !.particlePool[p] = [q EXCEPT !.isActive = FALSE]]
    ELSE [f EXCEPT !.particlePool[p].position = 0]

\* the callback of activeParticles.forEach in update, for list position k;
\* life is only ever read as min(life / maxLife, 1), so it is kept up to
\* maxLife;
\* r = [f |-> system, activeCount |-> count so far]
updateParticle(r, k, dt) ==
    LET p == r.f.activeParticles[k]
        q == r.f.particlePool[p]
    IN  IF ~q.isActive THEN r
        ELSE LET f1 == [r.f EXCEPT !.particlePool[p].life =
                                        Min(q.life + dt, q.maxLife)]
                 f2 == CASE q.phase = "launch"  -> updateLaunchPhase(f1, p)
                        [] q.phase = "explode" -> updateExplodePhase(f1, p)
                        [] q.phase = "fade"    -> updateFadePhase(f1, p)
                        [] OTHER               -> f1
             IN  [f |-> f2,
                  activeCount |-> r.activeCount +
                      (IF f2.particlePool[p].isActive THEN 1 ELSE 0)]

\* forEach visits the positions that existed when it was called
RECURSIVE updateLoop(_, _, _, _)
updateLoop(r, k, n, dt) ==
    IF k > n THEN r
    ELSE Once(updateParticle(r, k, dt),
              LAMBDA r1 : updateLoop(r1, k + 1, n, dt))

\* update(deltaTime)
FW_update(f, dt) ==
    IF ~f.isAnimating \/ Len(f.activeParticles) = 0 THEN f
    ELSE LET r == updateLoop([f |-> f, activeCount |-> 0], 1,
                             Len(f.activeParticles), dt)
         IN  IF r.activeCount = 0
             THEN [r.f EXCEPT !.isAnimating = FALSE]
             ELSE r.f

\* reset()
FW_reset(f) ==
    [f EXCEPT !.isAnimating = FALSE,
              !.particlePool =
                  [i \in 1..PoolSize |->
                      IF \E k \in 1..Len(f.activeParticles) :
                             f.activeParticles[k] = i
                      THEN [f.particlePool[i] EXCEPT !.isActive = FALSE]
                      ELSE f.particlePool[i]],
              !.activeParticles = <<>>]

isRunning(f) == f.isAnimating

\* number of pool particles in use
ActiveParticleCount(f) ==
    Cardinality({i \in 1..PoolSize : f.particlePool[i].isActive})

-----------------------------------------------------------------------------
(* FortuneScroll *)

\* parchment material opacity 1, in units that hold both dt / FADE_OUT_DURATION
\* and fadeProgress / NON_SELECTED_FADE_DURATION exactly
OpacityOne == FADE_OUT_DURATION * NON_SELECTED_FADE_DURATION

\* an unused heap slot
FreeScroll ==
    [state |-> "FREE", isAnimating |-> FALSE, scrollGroup |-> FALSE,
     selectionPulseTime |-> 0, unrollProgress |-> 0, textFadeProgress |-> 0,
     animationProgress |-> 0, fadeProgress |-> 0, opacity |-> 0]

\* new FortuneScroll(...) followed by setIdle()
setIdle ==
    [state |-> "IDLE", isAnimating |-> FALSE, scrollGroup |-> TRUE,
     selectionPulseTime |-> 0, unrollProgress |-> 0, textFadeProgress |-> 0,
     animationProgress |-> 0, fadeProgress |-> 0, opacity |-> OpacityOne]

setHovering(o, isHovering) ==
    IF o.state # "IDLE" /\ o.state # "HOVERING" THEN o
    ELSE IF isHovering THEN [o EXCEPT !.state = "HOVERING"]
         ELSE [o EXCEPT !.state = "IDLE"]

setSelected(o) == [o EXCEPT !.state = "SELECTED", !.selectionPulseTime = 0]

fadeAway(o) ==
    IF o.state = "IDLE" \/ o.state = "HOVERING"
    THEN [o EXCEPT !.state = "FADING_OUT", !.fadeProgress = 0]
    ELSE o

show(o) ==
    IF o.isAnimating \/ o.state = "UNROLLING" THEN o
    ELSE [o EXCEPT !.isAnimating = TRUE, !.state = "UNROLLING",
                   !.unrollProgress = 0, !.textFadeProgress = 0]

hide(o) ==
    [o EXCEPT !.scrollGroup = FALSE, !.isAnimating = FALSE,
              !.animationProgress = 0, !.state = "HIDDEN"]

\* total duration of the confirmation pulse
PulseTotalDuration == SELECTION_PULSE_COUNT * SELECTION_PULSE_DURATION * 2

updateSelectionPulse(o, dt) ==
    [o EXCEPT !.selectionPulseTime = Sat(@ + dt, PulseTotalDuration)]

updateUnrollState(o, dt) ==
    IF ~o.isAnimating THEN o
    ELSE LET u == IF o.unrollProgress < UNROLL_DURATION
                  THEN Min(o.unrollProgress + dt, UNROLL_DURATION)
                  ELSE o.unrollProgress
             \* unrollProgress > 0.75 && textFadeProgress < 1
             t == IF 4 * u > 3 * UNROLL_DURATION
                     /\ o.textFadeProgress < TEXT_FADE_DURATION
                  THEN Min(o.textFadeProgress + dt, TEXT_FADE_DURATION)
                  ELSE o.textFadeProgress
             o1 == [o EXCEPT !.unrollProgress = u, !.textFadeProgress = t]
         IN  IF u >= UNROLL_DURATION /\ t >= TEXT_FADE_DURATION
             THEN [o1 EXCEPT !.state = "DISPLAYED", !.animationProgress = 0]
             ELSE o1

\* opacity -= deltaTime / FADE_OUT_DURATION; HIDDEN once opacity <= 0
fadeOutScroll(o, dt) ==
    LET op == o.opacity - dt * NON_SELECTED_FADE_DURATION IN
    IF op <= 0
    THEN [o EXCEPT !.opacity = op, !.isAnimating = FALSE, !.state = "HIDDEN"]
    ELSE [o EXCEPT !.opacity = op]

updateDisplayState(o, dt) ==
    LET a == Sat(o.animationProgress + dt, DISPLAY_DURATION)
        o1 == [o EXCEPT !.animationProgress = a]
    IN  IF a > DISPLAY_DURATION THEN fadeOutScroll(o1, dt) ELSE o1

\* mutation of updateFadeOut: hide() is not called when the fade completes
updateFadeOut_noHide(o, dt) ==
    LET p == Min(o.fadeProgress + dt, NON_SELECTED_FADE_DURATION) IN
    [o EXCEPT !.fadeProgress = p,
              !.opacity = OpacityOne - p * FADE_OUT_DURATION]

\* mutation of updateFadeOut: the fade goes at half the speed
updateFadeOut_halfSpeed(o, dt) ==
    LET p == Min(o.fadeProgress + dt \div 2, NON_SELECTED_FADE_DURATION)
        o1 == [o EXCEPT !.fadeProgress = p,
                        !.opacity = OpacityOne - p * FADE_OUT_DURATION]
    IN  IF p >= NON_SELECTED_FADE_DURATION THEN hide(o1) ELSE o1

updateFadeOut(o, dt) ==
    LET p == Min(o.fadeProgress + dt, NON_SELECTED_FADE_DURATION)
        o1 == [o EXCEPT !.fadeProgress = p,
                        !.opacity = OpacityOne - p * FADE_OUT_DURATION]
    IN  IF p >= NON_SELECTED_FADE_DURATION THEN hide(o1) ELSE o1

\* FortuneScroll.update(deltaTime)
scroll_update(o, dt) ==
    IF ~o.scrollGroup THEN o
    ELSE CASE o.state = "SELECTED"   -> updateSelectionPulse(o, dt)
           [] o.state = "UNROLLING"  -> updateUnrollState(o, dt)
           [] o.state = "DISPLAYED"  -> updateDisplayState(o, dt)
           [] o.state = "FADING_OUT" -> updateFadeOut(o, dt)
           [] OTHER                  -> o

-----------------------------------------------------------------------------
(* The objects together: handlers are functions from world to world *)

World ==
    [gd |-> gd, fw |-> fw, sm |-> sm, objs |-> objs,
     showTimers |-> showTimers, app |-> app, ev |-> ev]

\* triggered: onGestureTrigger was called; selection: the index passed to
\* onFingerCountChange; launch: the number of target points passed to
\* launch(); threw: an exception was raised; stateChange: the state passed
\* to onStateChange, "NONE" when it was not called
NoEvent ==
    [triggered |-> FALSE, selection |-> NULL, launch |-> NULL,
     threw |-> FALSE, stateChange |-> "NONE"]

\* ids held by the manager
Held(w) == {w.sm.scrolls[k] : k \in 1..Len(w.sm.scrolls)}

\* the ids in seq, then the objects of the timers from position k on that
\* are not yet in it
RECURSIVE RefOrder(_, _, _)
RefOrder(w, seq, k) ==
    IF k > Len(w.showTimers) THEN seq
    ELSE LET id == w.showTimers[k].obj IN
         RefOrder(w,
                  IF \E j \in 1..Len(seq) : seq[j] = id THEN seq
                  ELSE Append(seq, id),
                  k + 1)

\* Garbage collection and heap layout: an object that neither the manager
\* nor a pending show() closure refers to leaves the heap, and the objects
\* left are numbered in the order of sm.scrolls, then of showTimers.  An
\* object's address is not observable in JavaScript.
Collect(w0) ==
    Once(w0, LAMBDA w :
    Once(RefOrder(w, w.sm.scrolls, 1), LAMBDA ord :
    LET newId(old) == CHOOSE j \in 1..Len(ord) : ord[j] = old
    IN  [w EXCEPT
            !.objs = [j \in 1..MaxObjs |->
                         IF j <= Len(ord) THEN w.objs[ord[j]]
                         ELSE FreeScroll],
            !.sm.scrolls = [k \in 1..Len(w.sm.scrolls) |->
                               newId(w.sm.scrolls[k])],
            !.showTimers = [k \in 1..Len(w.showTimers) |->
                               [w.showTimers[k] EXCEPT !.obj = newId(@)]]]))

-----------------------------------------------------------------------------
(* ScrollManager *)

SM_new ==
    [scrolls |-> <<>>, selectedScrollIndex |-> NULL,
     isAnimating |-> FALSE, state |-> "IDLE"]

\* the fortune pool, a phrase being known by its place in the array
allFortunes == 1..10

\* the first count entries that [...allFortunes].sort(() => Math.random() - 0.5)
\* can leave in front; the rest of the shuffled copy is never read
Shuffles(count) ==
    {f \in [1..count -> allFortunes] :
        \A i, j \in 1..count : i # j => f[i] # f[j]}

\* mutation of getUniqueRandomFortunes: the first phrase is taken every time
getUniqueRandomFortunes_sameDraw(count, shuffled) ==
    [k \in 1..count |-> shuffled[1]]

\* shuffled.slice(0, count)
getUniqueRandomFortunes(count, shuffled) ==
    SubSeq(shuffled, 1, count)

\* the k-th smallest unused heap slot
RECURSIVE FreeId(_, _)
FreeId(w, k) ==
    LET used == {id \in 1..MaxObjs : w.objs[id].state # "FREE"}
        below == IF k = 1 THEN 0 ELSE FreeId(w, k - 1)
    IN  CHOOSE id \in (1..MaxObjs) \ used :
            id > below /\ \A j \in (1..MaxObjs) \ used : j > below => id <= j

initialize(w0) ==
    Once(w0, LAMBDA w :
    Once([k \in 1..SCROLL_COUNT |-> FreeId(w, k)], LAMBDA ids :
    Collect(
    [w EXCEPT !.objs = [id \in 1..MaxObjs |->
                  IF \E k \in 1..SCROLL_COUNT : ids[k] = id
                  THEN setIdle ELSE w.objs[id]],
              !.sm = [scrolls |-> w.sm.scrolls \o ids,
                      selectedScrollIndex |-> NULL,
                      isAnimating |-> FALSE,
                      state |-> "IDLE"]])))

\* mutation of selectScroll: the index is not checked against the scrolls
selectScroll_anyIndex(w, index) ==
    IF w.sm.isAnimating \/ w.sm.state # "IDLE" THEN w
    ELSE [w EXCEPT !.objs = [id \in 1..MaxObjs |->
                       IF id \in Held(w)
                       THEN setHovering(w.objs[id],
                                \E k \in 1..Len(w.sm.scrolls) :
                                    k = index + 1 /\ id = w.sm.scrolls[k])
                       ELSE w.objs[id]],
                   !.sm.selectedScrollIndex = index,
                   !.sm.state = "SELECTING"]

\* mutation of selectScroll: selecting the selected scroll again clears the
\* selection
selectScroll_toggle(w, index) ==
    IF w.sm.isAnimating \/ w.sm.state \notin {"IDLE", "SELECTING"} THEN w
    ELSE IF index < 0 \/ index >= Len(w.sm.scrolls) THEN w
    ELSE IF w.sm.state = "SELECTING" /\ w.sm.selectedScrollIndex # index THEN w
    ELSE [w EXCEPT !.objs = [id \in 1..MaxObjs |->
                       IF id \in Held(w)
                       THEN setHovering(w.objs[id],
                                        /\ w.sm.state = "IDLE"
                                        /\ id = w.sm.scrolls[index + 1])
                       ELSE w.objs[id]],
                   !.sm.selectedScrollIndex =
                       IF w.sm.state = "IDLE" THEN index ELSE NULL,
                   !.sm.state =
                       IF w.sm.state = "IDLE" THEN "SELECTING" ELSE "IDLE"]

selectScroll(w, index) ==
    IF w.sm.isAnimating \/ w.sm.state # "IDLE" THEN w
    ELSE IF index < 0 \/ index >= Len(w.sm.scrolls) THEN w
    ELSE [w EXCEPT !.objs = [id \in 1..MaxObjs |->
                       IF id \in Held(w)
                       THEN setHovering(w.objs[id],
                                        id = w.sm.scrolls[index + 1])
                       ELSE w.objs[id]],
                   !.sm.selectedScrollIndex = index,
                   !.sm.state = "SELECTING"]

\* mutation of confirmSelection: only the missing selection is guarded
confirmSelection_onlyNullGuard(w) ==
    IF w.sm.selectedScrollIndex = NULL THEN w
    ELSE LET sel == w.sm.scrolls[w.sm.selectedScrollIndex + 1] IN
         [w EXCEPT !.sm.isAnimating = TRUE,
                   !.sm.state = "UNROLLING",
                   !.objs = [id \in 1..MaxObjs |->
                       IF id = sel THEN setSelected(w.objs[id])
                       ELSE IF id \in Held(w) THEN fadeAway(w.objs[id])
                       ELSE w.objs[id]],
                   !.showTimers = Append(@, [obj |-> sel,
                                             remaining |-> SHOW_DELAY_MS])]

confirmSelection(w) ==
    IF w.sm.selectedScrollIndex = NULL \/ w.sm.isAnimating THEN w
    ELSE IF w.sm.state # "SELECTING" THEN w
    ELSE LET sel == w.sm.scrolls[w.sm.selectedScrollIndex + 1] IN
         [w EXCEPT !.sm.isAnimating = TRUE,
                   !.sm.state = "UNROLLING",
                   !.objs = [id \in 1..MaxObjs |->
                       IF id = sel THEN setSelected(w.objs[id])
                       ELSE IF id \in Held(w) THEN fadeAway(w.objs[id])
                       ELSE w.objs[id]],
                   !.showTimers = Append(@, [obj |-> sel,
                                             remaining |-> SHOW_DELAY_MS])]

\* mutation of hideAll: the scrolls are dropped without hide()
hideAll_withoutHide(w) ==
    Collect([w EXCEPT !.sm = [scrolls |-> <<>>,
                              selectedScrollIndex |-> NULL,
                              isAnimating |-> FALSE,
                              state |-> "IDLE"]])

hideAll(w) ==
    Collect([w EXCEPT !.objs = [id \in 1..MaxObjs |->
                          IF id \in Held(w) THEN hide(w.objs[id])
                          ELSE w.objs[id]],
                      !.sm = [scrolls |-> <<>>,
                              selectedScrollIndex |-> NULL,
                              isAnimating |-> FALSE,
                              state |-> "IDLE"]])

\* mutation of reset: the scrolls held are made idle again instead of being
\* replaced
SM_reset_reuseScrolls(w) ==
    IF Len(w.sm.scrolls) = 0 THEN initialize(w)
    ELSE [w EXCEPT !.objs = [id \in 1..MaxObjs |->
                       IF id \in Held(w) THEN setIdle ELSE w.objs[id]],
                   !.sm.selectedScrollIndex = NULL,
                   !.sm.isAnimating = FALSE,
                   !.sm.state = "IDLE"]

SM_reset(w) ==
    initialize(
        Collect([w EXCEPT !.objs = [id \in 1..MaxObjs |->
                              IF id \in Held(w) THEN hide(w.objs[id])
                              ELSE w.objs[id]],
                          !.sm.scrolls = <<>>,
                          !.sm.selectedScrollIndex = NULL,
                          !.sm.isAnimating = FALSE]))

\* this.scrolls[this.selectedScrollIndex], FreeScroll standing for undefined
selectedScroll(w) ==
    IF w.sm.selectedScrollIndex # NULL
       /\ w.sm.selectedScrollIndex < Len(w.sm.scrolls)
    THEN w.objs[w.sm.scrolls[w.sm.selectedScrollIndex + 1]]
    ELSE FreeScroll

\* getScrollAtPosition(raycaster); ray lists the indices of the scrolls whose
\* position the ray passes through, nearest first, and intersectObjects
\* finds those of them whose mesh was handed to it
getScrollAtPosition(w, ray) ==
    IF w.sm.state # "IDLE" /\ w.sm.state # "SELECTING" THEN NULL
    ELSE LET meshes == {index \in 0..(Len(w.sm.scrolls) - 1) :
                            w.objs[w.sm.scrolls[index + 1]].scrollGroup}
             intersects == SelectSeq(ray, LAMBDA index : index \in meshes)
         IN  IF Len(intersects) > 0 THEN intersects[1] ELSE NULL

\* mutation of SM_update: the end of the unroll is not noticed
SM_update_unrollUnnoticed(w, dt) ==
    Once([w EXCEPT !.objs = [id \in 1..MaxObjs |->
              IF id \in Held(w) THEN scroll_update(w.objs[id], dt)
              ELSE w.objs[id]]],
         LAMBDA w1 :
    IF w1.sm.state = "DISPLAYED" /\ selectedScroll(w1).state = "HIDDEN"
    THEN hideAll(w1) ELSE w1)

SM_update(w, dt) ==
    Once([w EXCEPT !.objs = [id \in 1..MaxObjs |->
              IF id \in Held(w) THEN scroll_update(w.objs[id], dt)
              ELSE w.objs[id]]],
         LAMBDA w1 :
    Once(IF w1.sm.state = "DISPLAYED"
            /\ selectedScroll(w1).state = "HIDDEN"
         THEN hideAll(w1) ELSE w1,
         LAMBDA w2 :
    IF w2.sm.state = "UNROLLING"
       /\ selectedScroll(w2).state = "DISPLAYED"
    THEN [w2 EXCEPT !.sm.state = "DISPLAYED"]
    ELSE w2))

\* the callback of the setTimeout of confirmSelection, for the oldest timer
\* pending: scroll.show() on the scroll the closure holds
showCallback(w) ==
    Collect([w EXCEPT !.objs[w.showTimers[1].obj] = show(@),
                      !.showTimers = Tail(@)])

-----------------------------------------------------------------------------
(* CNYFireworksApp handlers *)

APP_new(n) ==
    [fireworksLaunched |-> FALSE, targetPoints |-> n, revealTimers |-> 0]

\* mutation of onGestureTrigger: the scrolls of the last round are kept
onGestureTrigger_keepScrolls(w) ==
    IF isRunning(w.fw) THEN w
    ELSE [w EXCEPT !.fw = launch(w.fw, w.app.targetPoints),
                   !.ev.launch = w.app.targetPoints,
                   !.app.fireworksLaunched = TRUE]

onGestureTrigger(w) ==
    IF isRunning(w.fw) THEN w
    ELSE LET w1 == IF Len(w.sm.scrolls) > 0 THEN hideAll(w) ELSE w IN
         [w1 EXCEPT !.fw = launch(w1.fw, w1.app.targetPoints),
                    !.ev.launch = w1.app.targetPoints,
                    !.app.fireworksLaunched = TRUE]

onFingerCountChange(w, scrollIndex) ==
    IF w.sm.state = "IDLE" \/ w.sm.state = "SELECTING"
    THEN selectScroll(w, scrollIndex) ELSE w

onFistGesture(w) ==
    IF w.sm.state = "SELECTING" THEN confirmSelection(w) ELSE w

\* mutation of animate: no scroll reveal is scheduled
animate_noReveal(w, dt) ==
    SM_update([w EXCEPT !.fw = FW_update(w.fw, dt)], dt)

\* animate() with deltaTime = dt
animate(w, dt) ==
    Once([w EXCEPT !.fw = FW_update(w.fw, dt)],
         LAMBDA w1 :
    Once(IF w1.app.fireworksLaunched /\ ~w1.fw.isAnimating
            /\ Len(w1.sm.scrolls) = 0
         THEN [w1 EXCEPT !.app.revealTimers = @ + 1]
         ELSE w1,
         LAMBDA w2 : SM_update(w2, dt)))

\* the callback of the setTimeout in animate
revealCallback(w) ==
    [initialize(w) EXCEPT !.app.fireworksLaunched = FALSE]

\* the keydown listener
onKeyDown(w, key) ==
    CASE key = "1" -> selectScroll(w, 0)
      [] key = "2" -> selectScroll(w, 1)
      [] key = "3" -> selectScroll(w, 2)
      [] key = " " -> confirmSelection(w)
      [] key = "r" -> SM_reset(w)
      [] OTHER     -> w

\* the click and touchend listener
handleInteraction(w, ray) ==
    LET scrollIndex == getScrollAtPosition(w, ray) IN
    IF scrollIndex = NULL THEN w
    ELSE IF w.sm.selectedScrollIndex = scrollIndex THEN confirmSelection(w)
    ELSE selectScroll(w, scrollIndex)

-----------------------------------------------------------------------------
(* GestureDetector *)

GD_new ==
    [currentState |-> "UNKNOWN", previousState |-> "UNKNOWN",
     sinceTrigger |-> COOLDOWN_MS + 1,
     currentFingerCount |-> 0, previousFingerCount |-> 0,
     sinceFingerChange |-> fingerCountDebounceMs + 1]

\* A hand frame: the number of landmarks of multiHandLandmarks[0], then
\* |thumbTip.x - thumbPip.x| and pip.y - tip.y of the four other fingers,
\* in hundredths; the first `up` fingers are raised.
HandFrame(thumb, up) ==
    [hand |-> TRUE, joints |-> LAST_LANDMARK + 1, thumb |-> thumb,
     fingers |-> [i \in 1..4 |-> IF i <= up THEN FINGER_MARGIN + 1
                                 ELSE FINGER_MARGIN]]

\* multiHandLandmarks missing or empty
NoHand ==
    [hand |-> FALSE, joints |-> 0, thumb |-> 0,
     fingers |-> [i \in 1..4 |-> 0]]

Frames ==
    {NoHand} \cup
    {HandFrame(t, u) : t \in {THUMB_MARGIN, THUMB_MARGIN + 1}, u \in 0..4}

\* frames whose landmark list has no, one too few or one too many landmarks
MalformedFrames ==
    {[HandFrame(t, u) EXCEPT !.joints = j] :
        t \in {THUMB_MARGIN, THUMB_MARGIN + 1}, u \in 0..4,
        j \in {0, LAST_LANDMARK, LAST_LANDMARK + 2}}

\* drawHandSkeleton reads landmarks[i].x for every i up to LAST_LANDMARK:
\* a TypeError is raised when one of them is undefined
drawHandSkeleton(w, landmarks) ==
    IF landmarks.joints <= LAST_LANDMARK THEN [w EXCEPT !.ev.threw = TRUE]
    ELSE w

countExtendedFingers(landmarks) ==
    (IF landmarks.thumb > THUMB_MARGIN THEN 1 ELSE 0)
    + Cardinality({i \in 1..4 : landmarks.fingers[i] > FINGER_MARGIN})

triggerGesture(w) == onGestureTrigger([w EXCEPT !.ev.triggered = TRUE])

\* mutation of updateFingerCount: the count is not clamped to 1..3
updateFingerCount_noClamp(w, fingerCount) ==
    IF fingerCount # w.gd.previousFingerCount
       /\ w.gd.sinceFingerChange > fingerCountDebounceMs
    THEN LET w1 == [w EXCEPT !.gd.previousFingerCount = fingerCount,
                             !.gd.currentFingerCount = fingerCount,
                             !.gd.sinceFingerChange = 0]
         IN  IF fingerCount > 0
             THEN onFingerCountChange(
                      [w1 EXCEPT !.ev.selection = fingerCount - 1],
                      fingerCount - 1)
             ELSE w1
    ELSE w

\* mutation of updateFingerCount: lastFingerCountChangeTime is not updated
updateFingerCount_noTimestamp(w, fingerCount) ==
    LET validFingerCount ==
            IF fingerCount >= 1 /\ fingerCount <= 3 THEN fingerCount ELSE 0
    IN  IF validFingerCount # w.gd.previousFingerCount
           /\ w.gd.sinceFingerChange > fingerCountDebounceMs
        THEN LET w1 == [w EXCEPT !.gd.previousFingerCount = validFingerCount,
                                 !.gd.currentFingerCount = validFingerCount]
             IN  IF validFingerCount > 0
                 THEN onFingerCountChange(
                          [w1 EXCEPT !.ev.selection = validFingerCount - 1],
                          validFingerCount - 1)
                 ELSE w1
        ELSE w

\* mutation of updateFingerCount: no debounce
updateFingerCount_noDebounce(w, fingerCount) ==
    LET validFingerCount ==
            IF fingerCount >= 1 /\ fingerCount <= 3 THEN fingerCount ELSE 0
    IN  IF validFingerCount # w.gd.previousFingerCount
        THEN LET w1 == [w EXCEPT !.gd.previousFingerCount = validFingerCount,
                                 !.gd.currentFingerCount = validFingerCount,
                                 !.gd.sinceFingerChange = 0]
             IN  IF validFingerCount > 0
                 THEN onFingerCountChange(
                          [w1 EXCEPT !.ev.selection = validFingerCount - 1],
                          validFingerCount - 1)
                 ELSE w1
        ELSE w

\* mutation of updateFingerCount: a suppressed change restarts the debounce
updateFingerCount_restartOnSuppress(w, fingerCount) ==
    LET validFingerCount ==
            IF fingerCount >= 1 /\ fingerCount <= 3 THEN fingerCount ELSE 0
    IN  IF validFingerCount # w.gd.previousFingerCount
           /\ w.gd.sinceFingerChange > fingerCountDebounceMs
        THEN LET w1 == [w EXCEPT !.gd.previousFingerCount = validFingerCount,
                                 !.gd.currentFingerCount = validFingerCount,
                                 !.gd.sinceFingerChange = 0]
             IN  IF validFingerCount > 0
                 THEN onFingerCountChange(
                          [w1 EXCEPT !.ev.selection = validFingerCount - 1],
                          validFingerCount - 1)
                 ELSE w1
        ELSE IF validFingerCount # w.gd.previousFingerCount
        THEN [w EXCEPT !.gd.sinceFingerChange = 0]
        ELSE w

updateFingerCount(w, fingerCount) ==
    LET validFingerCount ==
            IF fingerCount >= 1 /\ fingerCount <= 3 THEN fingerCount ELSE 0
    IN  IF validFingerCount # w.gd.previousFingerCount
           /\ w.gd.sinceFingerChange > fingerCountDebounceMs
        THEN LET w1 == [w EXCEPT !.gd.previousFingerCount = validFingerCount,
                                 !.gd.currentFingerCount = validFingerCount,
                                 !.gd.sinceFingerChange = 0]
             IN  IF validFingerCount > 0
                 THEN onFingerCountChange(
                          [w1 EXCEPT !.ev.selection = validFingerCount - 1],
                          validFingerCount - 1)
                 ELSE w1
        ELSE w

\* the classification of a hand frame
classify(extendedFingers) ==
    IF extendedFingers >= FIST_THRESHOLD THEN "OPEN" ELSE "FIST"

\* mutations of fistToOpen
fistToOpen_noCooldown(g) ==
    g.previousState = "FIST" /\ g.currentState = "OPEN"

fistToOpen_fromUnknown(g) ==
    /\ g.previousState # "OPEN" /\ g.currentState = "OPEN"
    /\ g.sinceTrigger > COOLDOWN_MS

\* the FIST -> OPEN transition with the cooldown check, on the detector
\* after it has recorded the frame's state
fistToOpen(g) ==
    /\ g.previousState = "FIST" /\ g.currentState = "OPEN"
    /\ g.sinceTrigger > COOLDOWN_MS

\* the end of the hand branch of onResults: onStateChange(currentState)
\* when the state differs from the previous one
notifyStateChange(w) ==
    IF w.gd.previousState # w.gd.currentState
    THEN [w EXCEPT !.ev.stateChange = w.gd.currentState]
    ELSE w

onResults(w, results) ==
    IF results.hand /\ drawHandSkeleton(w, results).ev.threw
    THEN drawHandSkeleton(w, results)
    ELSE IF results.hand
    THEN LET extendedFingers == countExtendedFingers(results)
             w1 == updateFingerCount(w, extendedFingers)
             w2 == [w1 EXCEPT !.gd.previousState = w1.gd.currentState,
                              !.gd.currentState = classify(extendedFingers)]
             w3 == IF fistToOpen(w2.gd)
                   THEN triggerGesture([w2 EXCEPT !.gd.sinceTrigger = 0])
                   ELSE w2
         IN  notifyStateChange(
                 IF w3.gd.currentState = "FIST" /\ w3.gd.previousState # "FIST"
                 THEN onFistGesture(w3)
                 ELSE w3)
    ELSE [w EXCEPT !.gd.currentState = "UNKNOWN",
                   !.gd.currentFingerCount = 0]

\* Date.now() advances by d
GD_elapse(g, d) ==
    [g EXCEPT !.sinceTrigger = Sat(@ + d, COOLDOWN_MS),
              !.sinceFingerChange = Sat(@ + d, fingerCountDebounceMs)]


\* d milliseconds pass: Date.now() advances and every pending show() timer
\* is d closer to the end of its delay
elapse(w, d) ==
    [w EXCEPT !.gd = GD_elapse(@, d),
              !.showTimers = [k \in 1..Len(w.showTimers) |->
                  [w.showTimers[k] EXCEPT
                      !.remaining = IF @ > d THEN @ - d ELSE 0]]]

-----------------------------------------------------------------------------
(* Initial state: the objects as constructed by CNYFireworksApp.init() *)

MonInit == [stage |-> 0, index |-> NULL, triggers |-> 0, gap |-> 0]

World0 ==
    [gd |-> GD_new, fw |-> FW_new, sm |-> SM_new,
     objs |-> [id \in 1..MaxObjs |-> FreeScroll],
     showTimers |-> <<>>, app |-> APP_new(TargetPoints), ev |-> NoEvent]

StartsAs(w) ==
    /\ gd = w.gd
    /\ fw = w.fw
    /\ sm = w.sm
    /\ objs = w.objs
    /\ showTimers = w.showTimers
    /\ app = w.app
    /\ ev = w.ev
    /\ mon = MonInit

Init == StartsAs(World0)

\* the caps on the manager's scrolls and on the pending timers
Bounded(w) ==
    /\ Len(w.sm.scrolls) <= MaxScrolls
    /\ Len(w.showTimers) <= MaxShowTimers
    /\ w.app.revealTimers <= MaxReveal

Apply(w) ==
    \E v \in {w} :
        /\ Bounded(v)
        /\ gd' = v.gd
        /\ fw' = v.fw
        /\ sm' = v.sm
        /\ objs' = v.objs
        /\ showTimers' = v.showTimers
        /\ app' = v.app
        /\ ev' = v.ev

\* the world a handler starts from: nothing pushed yet
Start == [World EXCEPT !.ev = NoEvent]

-----------------------------------------------------------------------------
(* Events of the running application *)

\* MediaPipe delivers the results of one camera frame
CameraFrame(results) ==
    /\ Apply(onResults(Start, results))
    /\ UNCHANGED mon

KeyDown(key) ==
    /\ Apply(onKeyDown(Start, key))
    /\ UNCHANGED mon

\* dt milliseconds after the previous frame the requestAnimationFrame
\* callback runs; clock.getDelta() is the time since the previous frame
AnimationFrame(dt) ==
    /\ Apply(animate(elapse(Start, dt), dt))
    /\ UNCHANGED mon

\* a pending scroll-reveal timer (delay DELAY_AFTER_FIREWORKS) fires
RevealTimerFire ==
    /\ app.revealTimers > 0
    /\ Apply(revealCallback([Start EXCEPT !.app.revealTimers = @ - 1]))
    /\ UNCHANGED mon

\* the oldest pending show() timer fires, not before its delay has elapsed
ShowTimerFire ==
    /\ Len(showTimers) > 0
    /\ showTimers[1].remaining = 0
    /\ LET id == showTimers[1].obj IN
       Apply(Collect([Start EXCEPT !.objs[id] = show(@),
                                   !.showTimers = Tail(@)]))
    /\ UNCHANGED mon

\* The application driven by the fist and open-palm frames and the keyboard
Fist == HandFrame(THUMB_MARGIN, 0)
OpenPalm == HandFrame(THUMB_MARGIN + 1, 4)
Keys == {"1", "2", " ", "r"}

Next ==
    \/ \E results \in {Fist, OpenPalm} : CameraFrame(results)
    \/ \E key \in Keys : KeyDown(key)
    \/ \E dt \in DeltaTimes : AnimationFrame(dt)
    \/ RevealTimerFire
    \/ ShowTimerFire

Spec == Init /\ [][Next]_vars

-----------------------------------------------------------------------------
(* The GestureDetector under every kind of camera frame *)

\* Quantum milliseconds pass between two camera frames
ClockTick ==
    /\ Apply(elapse(Start, Quantum))
    /\ UNCHANGED mon

NextGesture ==
    \/ \E results \in Frames : CameraFrame(results)
    \/ ClockTick

SpecGesture == Init /\ [][NextGesture]_vars

-----------------------------------------------------------------------------
(* The ScrollManager driven through its own interface *)

Initialize ==
    /\ Apply(initialize(Start))
    /\ UNCHANGED mon

SelectScroll(index) ==
    /\ Apply(selectScroll(Start, index))
    /\ UNCHANGED mon

ConfirmSelection ==
    /\ Apply(confirmSelection(Start))
    /\ UNCHANGED mon

HideAll ==
    /\ Apply(hideAll(Start))
    /\ UNCHANGED mon

ResetScrolls ==
    /\ Apply(SM_reset(Start))
    /\ UNCHANGED mon

\* dt milliseconds after the previous one, the animation loop calls
\* scrollManager.update(dt)
Tick(dt) ==
    /\ Apply(SM_update(elapse(Start, dt), dt))
    /\ UNCHANGED mon

NextScroll ==
    \/ Initialize
    \/ \E index \in 0..SCROLL_COUNT : SelectScroll(index)
    \/ ConfirmSelection
    \/ HideAll
    \/ ResetScrolls
    \/ \E dt \in DeltaTimes : Tick(dt)
    \/ ShowTimerFire

SpecScroll == Init /\ [][NextScroll]_vars

\* The ScrollManager with clicks and taps on the canvas in addition: a ray
\* passes through the positions of at most two scrolls
Rays ==
    {<<>>} \cup {<<i>> : i \in 0..(MaxScrolls - 1)}
           \cup {r \in {<<i, j>> : i, j \in 0..(MaxScrolls - 1)} :
                     r[1] # r[2]}

Click(ray) ==
    /\ Apply(handleInteraction(Start, ray))
    /\ UNCHANGED mon

NextClick ==
    \/ NextScroll
    \/ \E ray \in Rays : Click(ray)

SpecClick == Init /\ [][NextClick]_vars

\* The fortunes of the scrolls that initialize() creates on an empty manager.
\* No handler reads a scroll's fortune, so it is not kept in objs; here the
\* fortunes handed to the three constructors are kept in mon.index,
\* mon.triggers and mon.gap, and mon.stage is 1 right after initialize().
FortuneInitialize ==
    /\ Len(sm.scrolls) = 0
    /\ Apply(initialize(Start))
    /\ \E shuffled \in Shuffles(SCROLL_COUNT) :
          LET fortunes == getUniqueRandomFortunes(SCROLL_COUNT, shuffled) IN
          mon' = [stage |-> 1, index |-> fortunes[1],
                  triggers |-> fortunes[2], gap |-> fortunes[3]]

FortuneSelect(index) ==
    /\ Apply(selectScroll(Start, index))
    /\ mon' = [mon EXCEPT !.stage = 2]

FortuneHideAll ==
    /\ Apply(hideAll(Start))
    /\ mon' = MonInit

NextFortunes ==
    \/ FortuneInitialize
    \/ \E index \in 0..(SCROLL_COUNT - 1) : FortuneSelect(index)
    \/ FortuneHideAll

SpecFortunes == Init /\ [][NextFortunes]_vars

-----------------------------------------------------------------------------
(* The FireworksSystem driven through its own interface *)

Launch(n) ==
    /\ fw' = launch(fw, n)
    /\ ev' = [NoEvent EXCEPT !.launch = n]
    /\ UNCHANGED <<gd, sm, objs, showTimers, app, mon>>

\* update reads this.particleMesh.geometry once it is past its first guard
Update(dt) ==
    /\ fw' = FW_update(fw, dt)
    /\ ev' = [NoEvent EXCEPT !.threw =
                 fw.isAnimating /\ Len(fw.activeParticles) > 0
                 /\ ~fw.particleMesh]
    /\ UNCHANGED <<gd, sm, objs, showTimers, app, mon>>

Reset ==
    /\ fw' = FW_reset(fw)
    /\ ev' = NoEvent
    /\ UNCHANGED <<gd, sm, objs, showTimers, app, mon>>

NextFireworks ==
    \/ \E n \in 0..MaxTargets : Launch(n)
    \/ \E dt \in DeltaTimes : Update(dt)
    \/ Reset

SpecFireworks == Init /\ [][NextFireworks]_vars

-----------------------------------------------------------------------------
(* Fireworks runs: launch() with at least one target point when idle, then *)
(* update() from the animation loop until the run is over *)

\* times between two animation frames, down to a third of the explode phase
RunDeltaTimes == DeltaTimes \cup {EXPLODE_TIME \div 3, EXPLODE_TIME}

RunLaunch(n) ==
    /\ ~fw.isAnimating
    /\ Launch(n)

RunUpdate(dt) ==
    /\ fw.isAnimating
    /\ Update(dt)

NextRun ==
    \/ \E n \in 1..MaxTargets : RunLaunch(n)
    \/ \E dt \in RunDeltaTimes : RunUpdate(dt)

\* animate() reschedules itself with requestAnimationFrame on every call
SpecRun ==
    /\ Init
    /\ [][NextRun]_vars
    /\ WF_vars(\E dt \in RunDeltaTimes : RunUpdate(dt))

-----------------------------------------------------------------------------
(* Scenario: a fist frame, then an open-palm frame that launches the *)
(* fireworks, then only the animation loop and the scroll-reveal timers; *)
(* the text gave between one and MaxTargets target points *)

InitShow ==
    \E n \in 1..MaxTargets : StartsAs([World0 EXCEPT !.app.targetPoints = n])

ShowFist ==
    /\ mon.stage = 0
    /\ Apply(onResults(Start, Fist))
    /\ mon' = [mon EXCEPT !.stage = 1]

ShowOpenPalm ==
    /\ mon.stage = 1
    /\ Apply(onResults(Start, OpenPalm))
    /\ mon' = [mon EXCEPT !.stage = 2]

ShowFrame(dt) ==
    /\ mon.stage = 2
    /\ AnimationFrame(dt)

ShowReveal ==
    /\ mon.stage = 2
    /\ RevealTimerFire

NextShow ==
    \/ ShowFist
    \/ ShowOpenPalm
    \/ \E dt \in RunDeltaTimes : ShowFrame(dt)
    \/ ShowReveal

\* animate() reschedules itself with requestAnimationFrame on every call,
\* and a setTimeout callback that is due runs
SpecShow ==
    /\ InitShow
    /\ [][NextShow]_vars
    /\ WF_vars(\E dt \in RunDeltaTimes : ShowFrame(dt))
    /\ WF_vars(ShowReveal)

-----------------------------------------------------------------------------
(* The GestureDetector under every kind of camera frame, with a record of *)
(* the selection events: mon.index is the last index passed to *)
(* onFingerCountChange, mon.gap the time since then, and mon.stage is 1 *)
(* when the last event repeated the index of the event before it *)

FingerFrame(results) ==
    \E w \in {onResults(Start, results)} :
        /\ Apply(w)
        /\ mon' = IF w.ev.selection = NULL THEN mon
                  ELSE [mon EXCEPT
                           !.stage = IF mon.index = w.ev.selection
                                     THEN 1 ELSE 0,
                           !.index = w.ev.selection,
                           !.gap = 0]

FingerClock ==
    /\ Apply(elapse(Start, Quantum))
    /\ mon' = [mon EXCEPT !.gap = Sat(@ + Quantum, fingerCountDebounceMs)]

NextFingers ==
    \/ \E results \in Frames : FingerFrame(results)
    \/ FingerClock

SpecFingers == Init /\ [][NextFingers]_vars

-----------------------------------------------------------------------------
(* Scenario: up to FlickerLen frames with one to three fingers, each less *)
(* than fingerCountDebounceMs after the one before.  mon.stage is the *)
(* number of frames fed, mon.index the set of their finger counts (bit *)
(* n - 1 for count n), mon.triggers the number of selection events emitted *)
(* and mon.gap the time since the first frame *)

\* times between two camera frames, below the debounce interval
FlickerGaps ==
    {fingerCountDebounceMs \div 5,
     fingerCountDebounceMs - fingerCountDebounceMs \div 5}

\* the set of finger counts, as a bit mask, with n added
WithValue(mask, n) ==
    IF mask = NULL THEN 2 ^ (n - 1)
    ELSE IF (mask \div 2 ^ (n - 1)) % 2 = 1 THEN mask
    ELSE mask + 2 ^ (n - 1)

\* the number of distinct finger counts in the set
DistinctValues(mask) ==
    IF mask = NULL THEN 0
    ELSE Cardinality({n \in 1..3 : (mask \div 2 ^ (n - 1)) % 2 = 1})

FlickerFrame(d, results) ==
    /\ mon.stage < FlickerLen
    /\ results.hand
    /\ countExtendedFingers(results) \in 1..3
    /\ \E w \in {onResults(elapse(Start, IF mon.stage = 0 THEN 0 ELSE d),
                            results)} :
          /\ Apply(w)
          /\ mon' = [stage |-> mon.stage + 1,
                     index |-> WithValue(mon.index,
                                         countExtendedFingers(results)),
                     triggers |-> mon.triggers +
                                  (IF w.ev.selection # NULL THEN 1 ELSE 0),
                     gap |-> IF mon.stage = 0 THEN 0
                             ELSE Sat(mon.gap + d, fingerCountDebounceMs)]

NextFlicker ==
    \E d \in FlickerGaps : \E results \in Frames : FlickerFrame(d, results)

SpecFlicker == Init /\ [][NextFlicker]_vars

-----------------------------------------------------------------------------
(* Scenario: four hand frames classified FIST, OPEN, FIST, OPEN, with time *)
(* passing between them; mon.gap is the time between the two OPEN frames *)
(* and mon.triggers the number of triggers fired *)

FOFOFrame(results) ==
    /\ mon.stage < 4
    /\ results.hand
    /\ classify(countExtendedFingers(results)) =
           (IF mon.stage \in {0, 2} THEN "FIST" ELSE "OPEN")
    /\ LET w == onResults(Start, results) IN
       /\ Apply(w)
       /\ mon' = [mon EXCEPT
               !.stage = @ + 1,
               !.triggers = @ + (IF w.ev.triggered THEN 1 ELSE 0)]

FOFOClock ==
    /\ mon.stage < 4
    /\ Apply(elapse(Start, Quantum))
    /\ mon' = [mon EXCEPT
           !.gap = IF mon.stage \in {2, 3}
                   THEN Sat(@ + Quantum, COOLDOWN_MS) ELSE @]

NextFOFO ==
    \/ \E results \in Frames : FOFOFrame(results)
    \/ FOFOClock

SpecFOFO == Init /\ [][NextFOFO]_vars

-----------------------------------------------------------------------------
(* Scenario: from three IDLE scrolls, selectScroll(i), at once *)
(* confirmSelection(), then only update ticks and the show() timer; *)
(* mon.index is i and mon.gap the update time since the confirmation *)

InitC4 == StartsAs(initialize(World0))

C4Select(index) ==
    /\ mon.stage = 0
    /\ Apply(selectScroll(Start, index))
    /\ mon' = [mon EXCEPT !.stage = 1, !.index = index]

C4Confirm ==
    /\ mon.stage = 1
    /\ Apply(confirmSelection(Start))
    /\ mon' = [mon EXCEPT !.stage = 2]

C4Tick(dt) ==
    /\ mon.stage = 2
    /\ Apply(SM_update(elapse(Start, dt), dt))
    /\ mon' = [mon EXCEPT !.gap = Sat(@ + dt, NON_SELECTED_FADE_DURATION)]

C4Timer ==
    /\ mon.stage = 2
    /\ ShowTimerFire

NextC4 ==
    \/ \E index \in 0..(SCROLL_COUNT - 1) : C4Select(index)
    \/ C4Confirm
    \/ \E dt \in DeltaTimes : C4Tick(dt)
    \/ C4Timer

\* the animation loop keeps running and a timer that is due fires
SpecC4 ==
    /\ InitC4
    /\ [][NextC4]_vars
    /\ WF_vars(C4Confirm)
    /\ WF_vars(\E dt \in DeltaTimes : C4Tick(dt))
    /\ WF_vars(C4Timer)

-----------------------------------------------------------------------------
(* Scenario: the round of SpecC4 under short update ticks, a quarter of *)
(* the fade of the items not chosen and a tick that does not divide it *)

FadeDeltaTimes ==
    {NON_SELECTED_FADE_DURATION \div 4, (2 * NON_SELECTED_FADE_DURATION) \div 5}

NextFade ==
    \/ \E index \in 0..(SCROLL_COUNT - 1) : C4Select(index)
    \/ C4Confirm
    \/ \E dt \in FadeDeltaTimes : C4Tick(dt)
    \/ C4Timer

SpecFade == InitC4 /\ [][NextFade]_vars

-----------------------------------------------------------------------------
(* Scenario: three IDLE scrolls are shown and the camera delivers frames *)

NextAuto ==
    \/ \E results \in Frames : CameraFrame(results)
    \/ ClockTick

SpecAuto == InitC4 /\ [][NextAuto]_vars

-----------------------------------------------------------------------------
(* Scenario: the ScrollManager driven through its own interface, with a *)
(* record of the rounds: mon.stage is 1 while a show() timer is pending *)
(* that was scheduled before the last hideAll() or reset() *)

StaleAfter(w) == IF Len(w.showTimers) > 0 THEN 1 ELSE 0

StaleInitialize ==
    /\ Apply(initialize(Start))
    /\ UNCHANGED mon

StaleSelect(index) ==
    /\ Apply(selectScroll(Start, index))
    /\ UNCHANGED mon

StaleConfirm ==
    /\ Apply(confirmSelection(Start))
    /\ UNCHANGED mon

StaleHideAll ==
    \E w \in {hideAll(Start)} :
        /\ Apply(w)
        /\ mon' = [mon EXCEPT !.stage = StaleAfter(w)]

StaleReset ==
    \E w \in {SM_reset(Start)} :
        /\ Apply(w)
        /\ mon' = [mon EXCEPT !.stage = StaleAfter(w)]

StaleTick(dt) ==
    /\ Apply(SM_update(elapse(Start, dt), dt))
    /\ UNCHANGED mon

StaleTimer ==
    /\ Len(showTimers) > 0
    /\ showTimers[1].remaining = 0
    /\ Apply(showCallback(Start))
    /\ mon' = [mon EXCEPT !.stage = 0]

NextStale ==
    \/ StaleInitialize
    \/ \E index \in 0..(SCROLL_COUNT - 1) : StaleSelect(index)
    \/ StaleConfirm
    \/ StaleHideAll
    \/ StaleReset
    \/ \E dt \in DeltaTimes : StaleTick(dt)
    \/ StaleTimer

SpecStale == Init /\ [][NextStale]_vars

-----------------------------------------------------------------------------
(* Claims about the GestureDetector *)

\* C1: a trigger fires on a frame only if the gesture state before the frame
\* was FIST, the frame is classified OPEN, and more than COOLDOWN_MS have
\* passed since the last fired trigger; no other step fires a trigger.
C1_TriggerOnlyFistToOpenAfterCooldown ==
    [][ev'.triggered =>
          /\ gd.currentState = "FIST"
          /\ gd'.currentState = "OPEN"
          /\ gd.sinceTrigger > COOLDOWN_MS]_vars

\* a trigger has just fired, on an OPEN frame that followed a FIST frame
C1_Witness ==
    /\ ev.triggered
    /\ gd.previousState = "FIST"
    /\ gd.currentState = "OPEN"
    /\ gd.sinceTrigger = 0

\* C2: after frames classified FIST, OPEN, FIST, OPEN, exactly two triggers
\* have fired if at least COOLDOWN_MS passed between the two OPEN frames,
\* and exactly one if the second OPEN frame came before that.
C2_TwoTriggersAtCooldown ==
    mon.stage = 4 =>
        /\ mon.gap >= COOLDOWN_MS => mon.triggers = 2
        /\ mon.gap < COOLDOWN_MS => mon.triggers = 1

\* the second OPEN frame came exactly COOLDOWN_MS after the first
C2_Witness ==
    mon.stage = 4 /\ mon.gap = COOLDOWN_MS /\ mon.triggers = 1

\* C3: an OPEN frame that directly follows a frame without a hand fires no
\* trigger.
C3_NoTriggerFromUnknown ==
    [][(gd.currentState = "UNKNOWN" /\ gd'.currentState = "OPEN")
          => ~ev'.triggered]_vars

\* an OPEN frame has followed a no-hand frame that came after a frame with
\* one to three fingers (classified FIST), the cooldown being over
C3_Witness ==
    /\ gd.previousState = "UNKNOWN"
    /\ gd.currentState = "OPEN"
    /\ gd.previousFingerCount > 0
    /\ gd.sinceTrigger > COOLDOWN_MS
    /\ ~ev.triggered

\* C17: a selection event is emitted only when its value differs from the
\* last emitted value and at least fingerCountDebounceMs have passed since
\* the last emitted event.
C17_EmitOnlyOnNewValueAfterDebounce ==
    [][ev'.selection # NULL =>
          /\ ev'.selection # mon.index
          /\ (mon.index = NULL \/ mon.gap >= fingerCountDebounceMs)]_vars

\* C17, amended: a selection event is emitted only when the clamped count
\* differs from the tracked count (previousFingerCount, which an accepted
\* frame with 0, 4 or 5 fingers resets to 0) and more than
\* fingerCountDebounceMs have passed since the last accepted change, hence
\* also since the last emitted event.
C17_EmitOnlyOnTrackedChangeAfterDebounce ==
    [][ev'.selection # NULL =>
          /\ ev'.selection + 1 # gd.previousFingerCount
          /\ gd.sinceFingerChange > fingerCountDebounceMs
          /\ (mon.index = NULL \/ mon.gap > fingerCountDebounceMs)]_vars

\* an event has just been emitted with the same index as the event before
\* it, the tracked count having been reset to 0 in between
C17_Witness ==
    /\ ev.selection # NULL
    /\ mon.stage = 1
    /\ mon.index = ev.selection
    /\ mon.gap = 0
    /\ gd.sinceFingerChange = 0

C19_FlickerEmitsFewerThanDistinct ==
    DistinctValues(mon.index) >= 2 =>
        mon.triggers < DistinctValues(mon.index)

\* C19, amended: when the whole sequence spans no more than
\* fingerCountDebounceMs, it emits at most one selection event, hence fewer
\* events than distinct values when it has at least two distinct values.
C19_FlickerWithinDebounceEmitsOnce ==
    mon.gap <= fingerCountDebounceMs =>
        /\ mon.triggers <= 1
        /\ DistinctValues(mon.index) >= 2 =>
              mon.triggers < DistinctValues(mon.index)

\* FlickerLen frames with three distinct values, all within the debounce
\* interval, have emitted one selection event
C19_Witness ==
    /\ mon.stage = FlickerLen
    /\ mon.gap <= fingerCountDebounceMs
    /\ DistinctValues(mon.index) = 3
    /\ mon.triggers = 1

\* C20: a frame whose landmark set is missing, empty or malformed sets the
\* gesture state to UNKNOWN, fires no trigger and no selection event, and
\* raises no error.
C20_MalformedFrameIsNoHand ==
    \A results \in {NoHand} \cup MalformedFrames :
        LET w == onResults(Start, results) IN
        /\ w.gd.currentState = "UNKNOWN"
        /\ ~w.ev.triggered
        /\ w.ev.selection = NULL
        /\ ~w.ev.threw

\* C21: every change of the gesture state is pushed to onStateChange, the
\* change to UNKNOWN included: a step that changes currentState passes the
\* new state to the observer.
C21_StateChangePushed ==
    [][gd'.currentState # gd.currentState =>
          ev'.stateChange = gd'.currentState]_vars

\* the frame results delivered d milliseconds after the handler that left
\* the world w
C38_Held(w, d, results) ==
    onResults(elapse([w EXCEPT !.ev = NoEvent], d), results)

\* the frames with n fingers, n a valid count other than the last accepted
C38_NewCountFrames ==
    {results \in Frames :
        /\ results.hand
        /\ countExtendedFingers(results) \in 1..3
        /\ countExtendedFingers(results) # gd.previousFingerCount}

\* C38: a valid finger count other than the last accepted one, first seen
\* inside the debounce interval and held on every following frame, gets no
\* selection event while the interval lasts and gets one, for its scroll,
\* on the first frame after the interval has elapsed, and only that one.
C38_SuppressedChangeIsDelayed ==
    gd.sinceFingerChange <= fingerCountDebounceMs =>
        \A results \in C38_NewCountFrames : \A d1, d2 \in DeltaTimes :
            LET index == countExtendedFingers(results) - 1
                a == C38_Held(World, 0, results)
                b == C38_Held(a, d1, results)
                c == C38_Held(b, d2, results)
            IN  /\ a.ev.selection = NULL
                /\ b.ev.selection =
                      IF gd.sinceFingerChange + d1 > fingerCountDebounceMs
                      THEN index ELSE NULL
                /\ c.ev.selection =
                      IF b.ev.selection = NULL THEN index ELSE NULL

\* a count was accepted less than the debounce interval ago, and a frame
\* with another valid count is suppressed now and emitted once held long
\* enough
C38_Witness ==
    /\ gd.previousFingerCount \in 1..3
    /\ gd.sinceFingerChange \in 1..fingerCountDebounceMs
    /\ \E results \in C38_NewCountFrames :
          /\ C38_Held(World, 0, results).ev.selection = NULL
          /\ C38_Held(C38_Held(World, 0, results), Quantum, results)
                 .ev.selection = countExtendedFingers(results) - 1

-----------------------------------------------------------------------------
(* Claims about the ScrollManager *)

\* the state of the k-th item held by the manager, k from 0
ItemState(m, o, k) == o[m.scrolls[k + 1]].state

\* C4: for every index i (kept in mon.index), selectScroll(i) then
\* confirmSelection() on three IDLE scrolls, followed by update ticks and
\* the show() timer only, leads to item i DISPLAYED with both other items
\* HIDDEN; and while the round lasts the other items are HIDDEN exactly when
\* the update time since the confirmation has reached
\* NON_SELECTED_FADE_DURATION.
C4_SelectedDisplayedOthersHidden ==
    /\ (mon.stage = 1 /\ mon.index \in 0..(SCROLL_COUNT - 1)) ~>
          /\ Len(sm.scrolls) = SCROLL_COUNT
          /\ \A k \in 0..(SCROLL_COUNT - 1) :
                ItemState(sm, objs, k) =
                    IF k = mon.index THEN "DISPLAYED" ELSE "HIDDEN"
    /\ [](mon.stage = 2 /\ Len(sm.scrolls) = SCROLL_COUNT =>
            \A k \in 0..(SCROLL_COUNT - 1) : k # mon.index =>
                (ItemState(sm, objs, k) = "HIDDEN"
                    <=> mon.gap >= NON_SELECTED_FADE_DURATION))

\* the confirmed item is DISPLAYED and the two others are HIDDEN
C4_Witness ==
    /\ mon.stage = 2
    /\ Len(sm.scrolls) = SCROLL_COUNT
    /\ \A k \in 0..(SCROLL_COUNT - 1) :
          ItemState(sm, objs, k) =
              IF k = mon.index THEN "DISPLAYED" ELSE "HIDDEN"

\* C5: at most one of the items held by the manager is SELECTED, UNROLLING
\* or DISPLAYED.
C5_AtMostOneChosen ==
    Cardinality({k \in 0..(Len(sm.scrolls) - 1) :
        ItemState(sm, objs, k) \in {"SELECTED", "UNROLLING", "DISPLAYED"}})
      <= 1

\* what C6 says of the manager m and heap o right after a confirmation
C6_Post(m, o) ==
    /\ m.state = "UNROLLING"
    /\ m.selectedScrollIndex # NULL
    /\ \A k \in 0..(Len(m.scrolls) - 1) :
          ItemState(m, o, k) =
              IF k = m.selectedScrollIndex THEN "SELECTED" ELSE "FADING_OUT"

\* C6: the step of an accepted confirmSelection() (the manager goes from
\* SELECTING to UNROLLING) leaves the selected item SELECTED and every other
\* held item FADING_OUT.
C6_ConfirmedSelectedOthersFading ==
    [][(sm.state = "SELECTING" /\ sm'.state = "UNROLLING")
          => C6_Post(sm', objs')]_vars

\* C7: selectScroll(index), index in range, is accepted in manager state
\* IDLE or SELECTING: item index becomes HOVERING, every other item IDLE,
\* the manager SELECTING with selectedIndex = index.
C7_SelectAcceptedWhileSelecting ==
    \A index \in 0..(SCROLL_COUNT - 1) :
        (sm.state \in {"IDLE", "SELECTING"} /\ index < Len(sm.scrolls)) =>
            LET w == selectScroll(World, index) IN
            /\ w.sm.state = "SELECTING"
            /\ w.sm.selectedScrollIndex = index
            /\ \A k \in 0..(Len(w.sm.scrolls) - 1) :
                  ItemState(w.sm, w.objs, k) =
                      IF k = index THEN "HOVERING" ELSE "IDLE"

\* C8: confirmSelection() changes nothing (manager, items, timers) unless
\* the manager is SELECTING and selectedIndex is set.
C8_ConfirmIgnoredUnlessSelecting ==
    (sm.state # "SELECTING" \/ sm.selectedScrollIndex = NULL)
        => confirmSelection(World) = World

\* the manager is UNROLLING or DISPLAYED with a selection: a second
\* confirmSelection() arrives after an accepted one
C8_Witness ==
    /\ sm.state \in {"UNROLLING", "DISPLAYED"}
    /\ sm.selectedScrollIndex # NULL
    /\ confirmSelection(World) = World

\* C16: HIDDEN is terminal for a scroll.  A HIDDEN scroll that a pending
\* show() timer refers to is still HIDDEN after show(); a HIDDEN scroll held
\* by the manager is still HIDDEN after an update tick, hide(),
\* selectScroll() and confirmSelection().
C16_HiddenIsTerminal ==
    /\ \A k \in 1..Len(showTimers) :
          objs[showTimers[k].obj].state = "HIDDEN" =>
              show(objs[showTimers[k].obj]).state = "HIDDEN"
    /\ \A id \in Held(World) :
          objs[id].state = "HIDDEN" =>
              /\ \A dt \in DeltaTimes :
                    scroll_update(objs[id], dt).state = "HIDDEN"
              /\ hide(objs[id]).state = "HIDDEN"
              /\ \A index \in 0..(SCROLL_COUNT - 1) :
                    selectScroll(World, index).objs[id].state = "HIDDEN"
              /\ confirmSelection(World).objs[id].state = "HIDDEN"

\* what C22 says of the world w reached from the present one by hideAll()
\* or reset(), n being the number of items the manager holds afterwards:
\* the manager is IDLE with no selection and n items, all IDLE; every item
\* it held gets hide(), which leaves it HIDDEN, and the ones a pending
\* show() timer still refers to are HIDDEN and no longer held.
C22_Post(w, n) ==
    /\ w.sm.state = "IDLE"
    /\ w.sm.selectedScrollIndex = NULL
    /\ ~w.sm.isAnimating
    /\ Len(w.sm.scrolls) = n
    /\ \A k \in 0..(n - 1) : ItemState(w.sm, w.objs, k) = "IDLE"
    /\ \A id \in Held(World) : hide(objs[id]).state = "HIDDEN"
    /\ Len(w.showTimers) = Len(showTimers)
    /\ \A k \in 1..Len(showTimers) :
          showTimers[k].obj \in Held(World) =>
              /\ w.objs[w.showTimers[k].obj].state = "HIDDEN"
              /\ w.showTimers[k].obj \notin Held(w)

\* C22: from any manager state, hideAll() leaves every item the manager held
\* HIDDEN and the manager IDLE with no items and no selection; reset()
\* leaves the items it held HIDDEN and the manager IDLE with no selection
\* and exactly SCROLL_COUNT new items, all IDLE.
C22_HideAllAndResetClear ==
    /\ C22_Post(hideAll(World), 0)
    /\ C22_Post(SM_reset(World), SCROLL_COUNT)

\* hideAll() or reset() has just hidden a confirmed item whose show() timer
\* is still pending
C22_Witness ==
    /\ sm.state = "IDLE"
    /\ sm.selectedScrollIndex = NULL
    /\ Len(sm.scrolls) \in {0, SCROLL_COUNT}
    /\ Len(showTimers) > 0
    /\ showTimers[1].obj \notin Held(World)
    /\ objs[showTimers[1].obj].state = "HIDDEN"

\* the items the manager holds that are in state st
HeldIn(st) == {id \in Held(World) : objs[id].state = st}

\* C23: when an item the manager shows (state DISPLAYED) has faded to HIDDEN
\* in an update(), the manager has cleared all its items in that same
\* update(): it is IDLE, holds no items and has no selection; and the
\* manager is never left DISPLAYED with a HIDDEN selected item.
C23_FadedDisplayIsCleared ==
    /\ \A dt \in DeltaTimes :
          LET w == SM_update(World, dt) IN
          (\E id \in HeldIn("DISPLAYED") :
               scroll_update(objs[id], dt).state = "HIDDEN")
          => /\ w.sm.state = "IDLE"
             /\ w.sm.scrolls = <<>>
             /\ w.sm.selectedScrollIndex = NULL
    /\ sm.state = "DISPLAYED" => selectedScroll(World).state # "HIDDEN"

\* C24: the manager goes from UNROLLING to DISPLAYED in the update() call in
\* which its selected item reaches DISPLAYED, neither earlier nor later, and
\* it is never DISPLAYED while the selected item is SELECTED or UNROLLING.
C24_DisplayedTogether ==
    /\ \A dt \in DeltaTimes :
          LET w == SM_update(World, dt) IN
          sm.state = "UNROLLING" =>
              (w.sm.state = "DISPLAYED"
                   <=> scroll_update(selectedScroll(World), dt).state
                           = "DISPLAYED")
    /\ sm.state = "UNROLLING" => selectedScroll(World).state # "DISPLAYED"
    /\ sm.state = "DISPLAYED" =>
          selectedScroll(World).state \notin {"SELECTED", "UNROLLING"}

\* an update() has just taken the selected item and the manager to DISPLAYED
C24_Witness ==
    /\ sm.state = "DISPLAYED"
    /\ selectedScroll(World).state = "DISPLAYED"
    /\ selectedScroll(World).animationProgress = 0

\* C25: a confirmed item stays SELECTED for the whole confirmation pulse:
\* when the show() that takes it from SELECTED to UNROLLING is due, the item
\* has had PulseTotalDuration of update time since setSelected().
C25_UnrollAfterWholePulse ==
    \A k \in 1..Len(showTimers) :
        LET o == objs[showTimers[k].obj] IN
        (/\ showTimers[k].remaining = 0
         /\ o.state = "SELECTED"
         /\ show(o).state = "UNROLLING")
        => o.selectionPulseTime >= PulseTotalDuration

\* C26: getScrollAtPosition reports only items that are IDLE or HOVERING:
\* it returns null while the manager is UNROLLING or DISPLAYED, and
\* otherwise null or the index of an item that is IDLE or HOVERING.
C26_HitsOnlySelectableItems ==
    \A ray \in Rays :
        LET index == getScrollAtPosition(World, ray) IN
        /\ sm.state \in {"UNROLLING", "DISPLAYED"} => index = NULL
        /\ index # NULL =>
              /\ index \in 0..(Len(sm.scrolls) - 1)
              /\ ItemState(sm, objs, index) \in {"IDLE", "HOVERING"}

\* C27: initialize() on an empty manager leaves exactly three items, all
\* IDLE, with pairwise distinct fortunes taken from the pool of ten phrases,
\* and the manager IDLE with no selection.
C27_InitializeGivesThreeDistinctFortunes ==
    /\ Cardinality(allFortunes) = 10
    /\ mon.stage = 1 =>
          /\ Len(sm.scrolls) = 3
          /\ \A k \in 0..2 : ItemState(sm, objs, k) = "IDLE"
          /\ sm.state = "IDLE"
          /\ sm.selectedScrollIndex = NULL
          /\ {mon.index, mon.triggers, mon.gap} \subseteq allFortunes
          /\ Cardinality({mon.index, mon.triggers, mon.gap}) = 3

\* initialize() has just run on the empty manager: the last phrase of the
\* pool is on the first scroll and the first phrase on the last one
C27_Witness ==
    /\ mon.stage = 1
    /\ mon.index = 10
    /\ mon.gap = 1
    /\ Len(sm.scrolls) = 3
    /\ sm.state = "IDLE"

\* C28: an item put in FADING_OUT by the confirmation is FADING_OUT as long
\* as the update time since then (mon.gap) is below
\* NON_SELECTED_FADE_DURATION and HIDDEN from the first update() at which it
\* reaches it; and its opacity never increases from one tick to the next.
C28_FadeEndsWhenDurationReached ==
    /\ [](mon.stage = 2 /\ Len(sm.scrolls) = SCROLL_COUNT =>
            \A k \in 0..(SCROLL_COUNT - 1) : k # mon.index =>
                ItemState(sm, objs, k) =
                    IF mon.gap >= NON_SELECTED_FADE_DURATION
                    THEN "HIDDEN" ELSE "FADING_OUT")
    /\ [][\A k \in 0..(SCROLL_COUNT - 1) :
            (/\ Len(sm.scrolls) = SCROLL_COUNT
             /\ sm'.scrolls = sm.scrolls
             /\ ItemState(sm, objs, k) = "FADING_OUT")
            => objs'[sm.scrolls[k + 1]].opacity
                   <= objs[sm.scrolls[k + 1]].opacity]_vars

\* four ticks of a quarter of the fade have run since the confirmation and
\* the items not chosen are HIDDEN
C28_Witness ==
    /\ mon.stage = 2
    /\ Len(sm.scrolls) = SCROLL_COUNT
    /\ selectedScroll(World).state = "SELECTED"
    /\ selectedScroll(World).selectionPulseTime = NON_SELECTED_FADE_DURATION
    /\ \A k \in 0..(SCROLL_COUNT - 1) : k # mon.index =>
          /\ ItemState(sm, objs, k) = "HIDDEN"
          /\ objs[sm.scrolls[k + 1]].opacity = 0

\* the manager's state, its selection and the state of each item it holds
C29_View(w) ==
    [state |-> w.sm.state,
     selectedIndex |-> w.sm.selectedScrollIndex,
     items |-> [k \in 1..Len(w.sm.scrolls) |-> w.objs[w.sm.scrolls[k]].state]]

\* C29: for every index i in range, selectScroll(i) called twice in a row
\* leaves the manager's state, its selection and every item's state as one
\* call leaves them.
C29_SelectTwiceIsSelectOnce ==
    \A i \in 0..(Len(sm.scrolls) - 1) :
        C29_View(selectScroll(selectScroll(World, i), i))
            = C29_View(selectScroll(World, i))

\* a first selectScroll(i) has been accepted: the manager is SELECTING with
\* item i HOVERING
C29_Witness ==
    /\ sm.state = "SELECTING"
    /\ sm.selectedScrollIndex = 1
    /\ Len(sm.scrolls) = SCROLL_COUNT
    /\ ItemState(sm, objs, 1) = "HOVERING"

\* C30: selectScroll(index) changes nothing and raises no error when index
\* is negative or not below the number of items held (any index when the
\* manager holds none), and whatever the index while the manager is
\* UNROLLING or DISPLAYED.
C30_RejectedSelectIsNoOp ==
    \A index \in (0 - 1)..(MaxScrolls + 1) :
        (\/ index < 0
         \/ index >= Len(sm.scrolls)
         \/ sm.state \in {"UNROLLING", "DISPLAYED"})
        => /\ selectScroll(World, index) = World
           /\ ~selectScroll(Start, index).ev.threw

\* the manager is DISPLAYED, where every selectScroll is rejected, and it
\* holds three items, so that index 3 is out of range as well
C30_Witness ==
    /\ sm.state = "DISPLAYED"
    /\ Len(sm.scrolls) = SCROLL_COUNT
    /\ selectedScroll(World).state = "DISPLAYED"
    /\ selectedScroll(World).animationProgress > 0
    /\ selectScroll(World, SCROLL_COUNT) = World
    /\ selectScroll(World, 0) = World

-----------------------------------------------------------------------------
(* Claims about the FireworksSystem *)

\* C9: the active list never holds more particles than the pool has and
\* no call raises an error; a launch that is not refused, with n target
\* points, puts min(n, PoolSize) particles in the active list.
C9_ActiveWithinPool ==
    /\ [](Len(fw.activeParticles) <= PoolSize /\ ~ev.threw)
    /\ [][(~fw.isAnimating /\ ev'.launch # NULL) =>
             Len(fw'.activeParticles) = Min(ev'.launch, PoolSize)]_vars

\* a launch with more target points than the pool holds has just filled
\* the pool
C9_Witness ==
    /\ ev.launch > PoolSize
    /\ Len(fw.activeParticles) = PoolSize
    /\ ActiveParticleCount(fw) = PoolSize
    /\ ~ev.threw

\* C10: isRunning() is true exactly when at least one particle is active.
C10_RunningIffActive ==
    isRunning(fw) <=> ActiveParticleCount(fw) > 0

\* C11: while a fireworks run is in progress, launch() with any number of
\* target points leaves the FireworksSystem (active list, pool, running
\* flag) as it is, and a gesture trigger handled then changes neither the
\* FireworksSystem nor the ScrollManager and its scrolls.
C11_BusyLaunchIsNoOp ==
    /\ [](isRunning(fw) =>
            /\ \A n \in 0..MaxTargets : launch(fw, n) = fw
            /\ LET w == onGestureTrigger(World) IN
               w.fw = fw /\ w.sm = sm /\ w.objs = objs)
    /\ [][(ev'.triggered /\ isRunning(fw)) =>
             (fw' = fw /\ sm' = sm /\ objs' = objs)]_vars

\* a trigger has just been handled during a fireworks run, the manager
\* holding scrolls: nothing was launched and the scrolls are still there
C11_Witness ==
    /\ ev.triggered
    /\ ev.launch = NULL
    /\ isRunning(fw)
    /\ ActiveParticleCount(fw) > 0
    /\ Len(sm.scrolls) > 0

\* the phases a pool particle may go through in one step: a particle put to
\* use starts in launch (by launch()) or in fade (by createExplosion()), a
\* particle in use goes launch, explode, fade, and only a fading particle
\* is deactivated
C12_PhaseOrder(q, r, running) ==
    /\ (~q.isActive /\ r.isActive) =>
           r.phase = (IF running THEN "fade" ELSE "launch")
    /\ (q.isActive /\ q.phase = "launch") =>
           (r.isActive /\ r.phase \in {"launch", "explode"})
    /\ (q.isActive /\ q.phase = "explode") =>
           (r.isActive /\ r.phase \in {"explode", "fade"})
    /\ (q.isActive /\ q.phase = "fade") => r.phase = "fade"

\* C12: after a launch with at least one target point, update() calls with
\* positive deltaTime lead to a state where no particle is active and
\* isRunning() is false, every particle going through its phases in order.
C12_RunTerminates ==
    /\ isRunning(fw) ~> (~isRunning(fw) /\ ActiveParticleCount(fw) = 0)
    /\ [][\A i \in 1..PoolSize :
             C12_PhaseOrder(fw.particlePool[i], fw'.particlePool[i],
                            fw.isAnimating)]_vars

\* a run that created secondary particles is over: nothing is active
C12_Witness ==
    /\ ~isRunning(fw)
    /\ ActiveParticleCount(fw) = 0
    /\ Len(fw.activeParticles) = PoolSize
    /\ \A i \in 1..PoolSize : fw.particlePool[i].phase = "fade"

-----------------------------------------------------------------------------
(* Claims about the application *)

\* the manager holds exactly three scrolls, all IDLE
ThreeIdleScrolls ==
    /\ Len(sm.scrolls) = SCROLL_COUNT
    /\ sm.state = "IDLE"
    /\ \A k \in 0..(SCROLL_COUNT - 1) : ItemState(sm, objs, k) = "IDLE"

\* C13: once an accepted fist-to-open trigger has launched the fireworks,
\* the animation loop and its timer, with no reset and no new trigger, lead
\* to a finished run and a manager initialized with three IDLE scrolls.
C13_FireworksThenScrolls ==
    (mon.stage = 2 /\ isRunning(fw)) ~> (~isRunning(fw) /\ ThreeIdleScrolls)

\* the run is over and the reveal timer has created the three scrolls
C13_Witness ==
    /\ mon.stage = 2
    /\ ~isRunning(fw)
    /\ ActiveParticleCount(fw) = 0
    /\ ~app.fireworksLaunched
    /\ ThreeIdleScrolls

\* C14: at most one scroll-reveal callback is pending at any time.
C14_AtMostOneRevealPending ==
    app.revealTimers <= 1

\* C15: a scroll-reveal callback that fires while the fireworks are running
\* or while the manager holds scrolls has no effect on the manager and the
\* scrolls.
C15_StaleRevealHasNoEffect ==
    (app.revealTimers > 0 /\ (isRunning(fw) \/ Len(sm.scrolls) > 0)) =>
        LET w == revealCallback(World) IN w.sm = sm /\ w.objs = objs

\* C31: with three IDLE scrolls shown, a frame on which a finger-count
\* selection event is emitted selects the scroll of that event and confirms
\* it in the same frame (the manager is UNROLLING on return), whatever the
\* gesture state left by the frame before.
C31_FingerSelectionConfirms ==
    [][(ThreeIdleScrolls /\ ev'.selection # NULL) =>
          /\ sm'.state = "UNROLLING"
          /\ sm'.selectedScrollIndex = ev'.selection]_vars

\* C32: a click or tap that hits a scroll other than the tentative selection
\* selects that scroll and confirms nothing; a click or tap that hits the
\* tentative selection confirms it.
C32_SecondHitConfirms ==
    \A ray \in Rays :
        LET index == getScrollAtPosition(World, ray)
            w == handleInteraction(World, ray)
        IN  index # NULL =>
            IF index = sm.selectedScrollIndex
            THEN /\ w.sm.state = "UNROLLING"
                 /\ w.sm.selectedScrollIndex = index
                 /\ ItemState(w.sm, w.objs, index) = "SELECTED"
            ELSE /\ w.sm.state = "SELECTING"
                 /\ w.sm.selectedScrollIndex = index
                 /\ ItemState(w.sm, w.objs, index) = "HOVERING"
                 /\ w.showTimers = showTimers

\* the pool slots whose particle goes from launch to explode in this step
C33_Exploding ==
    {p \in 1..PoolSize :
        /\ fw.particlePool[p].isActive
        /\ fw.particlePool[p].phase = "launch"
        /\ fw'.particlePool[p].phase = "explode"}

\* the pool slots put in the active list by the explosions of this step
C33_Spawned ==
    {fw'.activeParticles[k] :
        k \in (Len(fw.activeParticles) + 1)..Len(fw'.activeParticles)}

\* C33: a particle that completes its launch phase is in phase explode at
\* its target position; every secondary particle its explosion spawns is
\* in phase fade with no life spent, at the position and with the color of
\* a primary that exploded; and when fewer than EXPLOSION_PARTICLES per
\* explosion are spawned, the pool is exhausted and no error is raised.
C33_ExplosionAtTarget ==
    [][fw.isAnimating =>
         /\ \A p \in C33_Exploding :
               /\ fw'.particlePool[p].isActive
               /\ fw'.particlePool[p].position = fw.particlePool[p].target
               /\ fw'.particlePool[p].color = fw.particlePool[p].color
         /\ \A s \in C33_Spawned :
               /\ fw'.particlePool[s].isActive
               /\ fw'.particlePool[s].phase = "fade"
               /\ fw'.particlePool[s].life = 0
               /\ \E p \in C33_Exploding :
                     /\ fw'.particlePool[s].position
                            = fw.particlePool[p].target
                     /\ fw'.particlePool[s].color = fw.particlePool[p].color
         /\ Cardinality(C33_Spawned)
                < EXPLOSION_PARTICLES * Cardinality(C33_Exploding)
            => /\ \A i \in 1..PoolSize : fw'.particlePool[i].isActive
               /\ ~ev'.threw]_vars

\* an explosion has just been truncated: two primaries at their target
\* points in phase explode and the one secondary the pool had room for
C33_Witness ==
    /\ fw.isAnimating
    /\ Len(fw.activeParticles) = PoolSize
    /\ \E p, s \in 1..PoolSize :
          /\ fw.particlePool[p].phase = "explode"
          /\ fw.particlePool[p].life = 0
          /\ fw.particlePool[p].position = fw.particlePool[p].target
          /\ fw.particlePool[s].phase = "fade"
          /\ fw.particlePool[s].life = 0
          /\ fw.particlePool[s].position = fw.particlePool[p].position
          /\ fw.particlePool[s].color = fw.particlePool[p].color
    /\ Cardinality({p \in 1..PoolSize :
                        fw.particlePool[p].phase = "explode"}) > 1

\* C34: a pool particle that is not active is in phase inactive, after the
\* end of its fade phase and after reset() as at construction.
C34_InactiveMeansPhaseInactive ==
    \A i \in 1..PoolSize :
        ~fw.particlePool[i].isActive =>
            fw.particlePool[i].phase = "inactive"

\* C35: the manager is IDLE exactly when selectedScrollIndex is null, and
\* while it is SELECTING the item at selectedScrollIndex is HOVERING and
\* every other item it holds is IDLE.
C35_SelectingShape ==
    /\ sm.state = "IDLE" <=> sm.selectedScrollIndex = NULL
    /\ sm.state = "SELECTING" =>
          /\ sm.selectedScrollIndex \in 0..(Len(sm.scrolls) - 1)
          /\ \A k \in 0..(Len(sm.scrolls) - 1) :
                ItemState(sm, objs, k) =
                    IF k = sm.selectedScrollIndex THEN "HOVERING" ELSE "IDLE"

\* C36: whatever animation frames, reveal timers, triggers, resets and
\* updates have run, the manager holds no scrolls or exactly SCROLL_COUNT:
\* initialize() never runs on a manager that holds scrolls.
C36_NoneOrThreeScrolls ==
    Len(sm.scrolls) \in {0, SCROLL_COUNT}

\* C37: a gesture trigger handled while no fireworks are running leaves the
\* manager with no scrolls, IDLE and with no selection, and the fireworks
\* running, whatever state the manager was in.
C37_TriggerClearsScrollsAndLaunches ==
    /\ ~isRunning(fw) =>
          LET w == onGestureTrigger(World) IN
          /\ w.sm.scrolls = <<>>
          /\ w.sm.state = "IDLE"
          /\ w.sm.selectedScrollIndex = NULL
          /\ isRunning(w.fw)
    /\ (ev.triggered /\ ev.launch # NULL) =>
          /\ sm.scrolls = <<>>
          /\ sm.state = "IDLE"
          /\ sm.selectedScrollIndex = NULL
          /\ isRunning(fw)

\* a trigger has just been handled in a round whose confirmation timer is
\* still pending: the scrolls are gone and the fireworks are running
C37_Witness ==
    /\ ev.triggered
    /\ ev.launch # NULL
    /\ isRunning(fw)
    /\ sm.scrolls = <<>>
    /\ Len(showTimers) > 0

\* the manager and the items it holds, in the order it holds them
C39_Round(w) ==
    [sm |-> [w.sm EXCEPT !.scrolls = <<>>],
     items |-> [k \in 1..Len(w.sm.scrolls) |-> w.objs[w.sm.scrolls[k]]]]

\* C39: the show() timer of a confirmation that fires after a later
\* reset(), or after a hideAll() and whatever initialize() followed it,
\* changes neither the manager's state and selection nor any item the
\* manager holds.
C39_StaleTimerSparesNewRound ==
    (mon.stage = 1 /\ Len(showTimers) > 0) =>
        C39_Round(showCallback(World)) = C39_Round(World)

\* the timer of a confirmation before the last reset() or hideAll() is due
\* while a scroll of the new round is tentatively selected
C39_Witness ==
    /\ mon.stage = 1
    /\ Len(showTimers) > 0
    /\ showTimers[1].remaining = 0
    /\ Len(sm.scrolls) = SCROLL_COUNT
    /\ sm.state = "SELECTING"
    /\ show(objs[showTimers[1].obj]).state = "UNROLLING"

\* C40: no pool slot is twice in the active list, so that the list is never
\* longer than the pool: a slot deactivated during a run is not allocated
\* again by a later explosion of that run.
C40_NoSlotTwiceInActiveList ==
    /\ \A j, k \in 1..Len(fw.activeParticles) :
          j # k => fw.activeParticles[j] # fw.activeParticles[k]
    /\ Len(fw.activeParticles) <= PoolSize

\* a run in which an explosion has spawned secondaries: the list holds
\* every slot of the pool once
C40_Witness ==
    /\ fw.isAnimating
    /\ Len(fw.activeParticles) = PoolSize
    /\ \E k \in 1..Len(fw.activeParticles) :
          LET q == fw.particlePool[fw.activeParticles[k]] IN
          q.isActive /\ q.phase = "fade" /\ q.color # 0 /\ q.target = 0

====
